---- MODULE Spec2Model ----
(***************************************************************************)
(* Verilog defect analysis batch (lintLLM1.py, utils.py).                  *)
(*                                                                         *)
(* Python strings are modelled as sequences of one-character strings, so   *)
(* that substring tests, regular-expression searches, slicing and          *)
(* concatenation are computed character by character as the code does.     *)
(* Python values that travel through parse_llm_result (the decoded JSON    *)
(* body) are tagged records [t |-> type, v |-> value].                     *)
(***************************************************************************)
EXTENDS Integers, Sequences, FiniteSets

(***************************************************************************)
(* String literals of the source.                                          *)
(***************************************************************************)
S_error == <<"e", "r", "r", "o", "r">>
S_message == <<"m", "e", "s", "s", "a", "g", "e">>
S_content == <<"c", "o", "n", "t", "e", "n", "t">>
S_ERROR == <<"E", "R", "R", "O", "R">>
S_UNKNOWN == <<"U", "N", "K", "N", "O", "W", "N">>
S_NONE == <<"N", "O", "N", "E">>
S_NA == <<"N", "/", "A">>
S_UnknownResultFormat == <<"U", "n", "k", "n", "o", "w", "n", " ", "r", "e", "s", "u",
    "l", "t", " ", "f", "o", "r", "m", "a", "t">>
S_NoDefectsFound == <<"N", "o", " ", "d", "e", "f", "e", "c", "t", "s", " ", "f", "o",
    "u", "n", "d">>
S_RESULT_NO == <<"R", "E", "S", "U", "L", "T", ":", " ", "[", "N", "O", "]">>
S_RESULT_YES == <<"R", "E", "S", "U", "L", "T", ":", " ", "[", "Y", "E", "S", "]">>
S_MULTIPLE_YES == <<"M", "U", "L", "T", "I", "P", "L", "E", " ", "D", "E", "F", "E", "C",
    "T", "S", ":", " ", "[", "Y", "E", "S", "]">>
S_MULTIPLE == <<"M", "U", "L", "T", "I", "P", "L", "E", " ", "D", "E", "F", "E", "C",
    "T", "S", ":">>
S_ALL_DEFECT_LINES == <<"A", "L", "L", " ", "D", "E", "F", "E", "C", "T", " ", "L", "I",
    "N", "E", "S", ":">>
S_MAIN_DEFECT_LINE == <<"M", "A", "I", "N", " ", "D", "E", "F", "E", "C", "T", " ", "L",
    "I", "N", "E", ":">>
S_DEFECT_LINE == <<"D", "E", "F", "E", "C", "T", " ", "L", "I", "N", "E", ":">>
S_DEFECT_CATEGORY == <<"D", "E", "F", "E", "C", "T", " ", "C", "A", "T", "E", "G", "O",
    "R", "Y", ":">>
S_DESCRIPTION == <<"D", "E", "S", "C", "R", "I", "P", "T", "I", "O", "N", ":">>
S_Ellipsis == <<".", ".", ".">>

(***************************************************************************)
(* Character classes of the regular expressions (ASCII part).              *)
(***************************************************************************)
\* \s of re, and the characters str.strip() removes
Ws == {" ", "\n", "\t", "\r"}

\* \d
Digits == {"0", "1", "2", "3", "4", "5", "6", "7", "8", "9"}

\* [0-9\-]
DigitsOrHyphen == Digits \cup {"-"}

\* [A-Z_]
CatChars ==
    {"A", "B", "C", "D", "E", "F", "G", "H", "I", "J", "K", "L", "M", "N",
     "O", "P", "Q", "R", "S", "T", "U", "V", "W", "X", "Y", "Z", "_"}

(***************************************************************************)
(* Python str operations.                                                  *)
(***************************************************************************)
SetMin(S) == CHOOSE x \in S : \A y \in S : x <= y

\* s[i-1:].startswith(lit)
MatchAt(s, i, lit) ==
    /\ i >= 1
    /\ i + Len(lit) - 1 <= Len(s)
    /\ \A j \in 1..Len(lit) : s[i + j - 1] = lit[j]

\* the start positions (1-based) of the occurrences of lit in s
Occurrences(s, lit) == {i \in 1..(Len(s) - Len(lit) + 1) : MatchAt(s, i, lit)}

\* lit in s
Contains(s, lit) == \E i \in 1..(Len(s) - Len(lit) + 1) : MatchAt(s, i, lit)

\* s.find(lit) + 1, 0 when absent
Find(s, lit) == IF Contains(s, lit) THEN SetMin(Occurrences(s, lit)) ELSE 0

\* the first position j >= i whose character is outside class, Len(s) + 1 when
\* there is none: where a greedy [class]* started at i ends
RunEnd(s, i, class) ==
    SetMin({j \in i..(Len(s) + 1) : j = Len(s) + 1 \/ s[j] \notin class})

\* the first position j >= i whose character is in class, Len(s) + 1 when there
\* is none: where a greedy [^class]* started at i ends
RunEndNot(s, i, class) ==
    SetMin({j \in i..(Len(s) + 1) : j = Len(s) + 1 \/ s[j] \in class})

\* where the line of position i ends: .* without re.DOTALL started at i
LineEnd(s, i) == RunEndNot(s, i, {"\n"})

\* s[:n]
Prefix(s, n) == SubSeq(s, 1, IF n < Len(s) THEN n ELSE Len(s))

\* s[i-1:]
Suffix(s, i) == SubSeq(s, i, Len(s))

\* s.strip()
Strip(s) ==
    LET a == RunEnd(s, 1, Ws)
        nonws == {j \in 1..Len(s) : s[j] \notin Ws}
    IN  IF nonws = {} THEN <<>>
        ELSE SubSeq(s, a, CHOOSE j \in nonws : \A k \in nonws : k <= j)

\* s.rstrip('_')
RStripUnderscore(s) ==
    LET keep == {j \in 1..Len(s) : s[j] # "_"}
    IN  IF keep = {} THEN <<>>
        ELSE SubSeq(s, 1, CHOOSE j \in keep : \A k \in keep : k <= j)

\* s.replace(lit, "")
RECURSIVE RemoveAll(_, _)
RemoveAll(s, lit) ==
    LET p == Find(s, lit)
    IN  IF p = 0 THEN s
        ELSE SubSeq(s, 1, p - 1) \o RemoveAll(Suffix(s, p + Len(lit)), lit)

\* re.sub(lit + r'.*?(?=\n|$)', '', s): every occurrence of lit goes with the
\* rest of its line, the line break stays
RECURSIVE RemoveToEol(_, _)
RemoveToEol(s, lit) ==
    LET p == Find(s, lit)
    IN  IF p = 0 THEN s
        ELSE SubSeq(s, 1, p - 1)
                 \o RemoveToEol(Suffix(s, LineEnd(s, p)), lit)

\* re.sub(r'\s+', ' ', s)
RECURSIVE CollapseWs(_)
CollapseWs(s) ==
    IF s = <<>> THEN <<>>
    ELSE IF s[1] \in Ws THEN <<" ">> \o CollapseWs(Suffix(s, RunEnd(s, 1, Ws)))
    ELSE LET e == RunEndNot(s, 1, Ws)
         IN  SubSeq(s, 1, e - 1) \o CollapseWs(Suffix(s, e))

\* str(n) for n >= 0
RECURSIVE IntToStr(_)
IntToStr(n) ==
    LET digit == <<"0", "1", "2", "3", "4", "5", "6", "7", "8", "9">>[(n % 10) + 1]
    IN  IF n < 10 THEN <<digit>> ELSE IntToStr(n \div 10) \o <<digit>>

(***************************************************************************)
(* Python values.                                                          *)
(***************************************************************************)
PyNone == [t |-> "None"]
PyInt(n) == [t |-> "int", v |-> n]
PyStr(s) == [t |-> "str", v |-> s]
PyList(l) == [t |-> "list", v |-> l]
PyDict(d) == [t |-> "dict", v |-> d]

\* `lit in x` raises TypeError unless x is a str, a list or a dict
SupportsIn(x) == x.t \in {"str", "list", "dict"}

\* lit in x, for x a str (substring), a list (element) or a dict (key)
PyIn(lit, x) ==
    CASE x.t = "str" -> Contains(x.v, lit)
      [] x.t = "list" -> \E i \in 1..Len(x.v) : x.v[i] = PyStr(lit)
      [] x.t = "dict" -> lit \in DOMAIN x.v

\* bool(x)
Truthy(x) ==
    CASE x.t = "None" -> FALSE
      [] x.t = "int" -> x.v # 0
      [] x.t = "str" -> x.v # <<>>
      [] x.t = "list" -> x.v # <<>>
      [] x.t = "dict" -> DOMAIN x.v # {}

(***************************************************************************)
(* parse_llm_result (utils.py).                                            *)
(***************************************************************************)
\* len(description) > 100
DescriptionLimit == 100

\* description[:97]
DescriptionKeep == 97

\* re.search(lit + r'\s*\[([class]+)\]', s): group(1) of the leftmost match as a
\* str, None when nothing matches.  \s* is greedy and the next item is "[", so
\* it takes the whole run of white space; [class]+ is greedy and the next item
\* is "]", which class excludes, so the group is the whole run of class.
SearchBracketed(s, lit, class) ==
    LET GroupAt(p) ==
            LET q == RunEnd(s, p + Len(lit), Ws)
                e == IF q <= Len(s) /\ s[q] = "[" THEN RunEnd(s, q + 1, class) ELSE 0
            IN  IF e > q + 1 /\ e <= Len(s) /\ s[e] = "]"
                THEN PyStr(SubSeq(s, q + 1, e - 1))
                ELSE PyNone
        hits == {p \in Occurrences(s, lit) : GroupAt(p) # PyNone}
    IN  IF hits = {} THEN PyNone ELSE GroupAt(SetMin(hits))

\* re.search(r'DEFECT CATEGORY:\s*\[?([A-Z_]+)\]?', s): group(1) of the leftmost
\* match, None when nothing matches.  The optional "[" is taken when present;
\* giving it back never helps, "[" being no [A-Z_] character.
SearchCategory(s) ==
    LET GroupAt(p) ==
            LET q == RunEnd(s, p + Len(S_DEFECT_CATEGORY), Ws)
                b == IF q <= Len(s) /\ s[q] = "[" THEN q + 1 ELSE q
                e == RunEnd(s, b, CatChars)
            IN  IF e > b THEN PyStr(SubSeq(s, b, e - 1)) ELSE PyNone
        hits == {p \in Occurrences(s, S_DEFECT_CATEGORY) : GroupAt(p) # PyNone}
    IN  IF hits = {} THEN PyNone ELSE GroupAt(SetMin(hits))

\* re.search(r'DESCRIPTION:\s*(.+?)(?:\n|$)', s, re.DOTALL): group(1) of the
\* leftmost match, None when nothing matches.  After the white space the lazy
\* group runs to the end of the line.  When only white space follows the marker
\* the greedy \s* gives back its last character, which becomes the group.
SearchDescription(s) ==
    LET p == Find(s, S_DESCRIPTION)
        q0 == p + Len(S_DESCRIPTION)
        q == RunEnd(s, q0, Ws)
    IN  IF p = 0 THEN PyNone
        ELSE IF q <= Len(s)
             THEN PyStr(SubSeq(s, q, LineEnd(s, q + 1) - 1))
        ELSE IF q > q0 THEN PyStr(<<s[Len(s)]>>)
        ELSE PyNone

\* utils.py 111-114: first sentence, else the 100 character limit
ConciseDescription(d) ==
    IF Contains(d, <<".">>) THEN SubSeq(d, 1, Find(d, <<".">>) - 1) \o <<".">>
    ELSE IF Len(d) > DescriptionLimit THEN Prefix(d, DescriptionKeep) \o S_Ellipsis
    ELSE d

\* utils.py 105-114: the description after the DESCRIPTION marker, "" without
StructuredDescription(content) ==
    LET description_match == SearchDescription(content)
    IN  IF description_match = PyNone THEN <<>>
        ELSE LET description == Strip(description_match.v)
             IN  ConciseDescription(description)

\* utils.py 122-143: the content without its markers
FallbackDescription(content) ==
    LET d0 == RemoveAll(RemoveAll(content, S_RESULT_YES), S_RESULT_NO)
        d1 == IF Contains(content, S_MULTIPLE) THEN RemoveToEol(d0, S_MULTIPLE) ELSE d0
        d2 == IF Contains(content, S_ALL_DEFECT_LINES)
              THEN RemoveToEol(d1, S_ALL_DEFECT_LINES) ELSE d1
        d3 == IF Contains(content, S_MAIN_DEFECT_LINE)
              THEN RemoveToEol(d2, S_MAIN_DEFECT_LINE) ELSE d2
        d4 == IF Contains(content, S_DEFECT_LINE)
              THEN RemoveToEol(d3, S_DEFECT_LINE) ELSE d3
        d5 == IF Contains(content, S_DEFECT_CATEGORY)
              THEN RemoveToEol(d4, S_DEFECT_CATEGORY) ELSE d4
        d6 == Strip(CollapseWs(d5))
    IN  IF Len(d6) > DescriptionLimit THEN Prefix(d6, DescriptionKeep) \o S_Ellipsis
        ELSE d6

\* HasNoDefectMarker as it would be if the marker counted only in a text that
\* reports no defect line
HasNoDefectMarker_unless_defect_line(content) ==
    Contains(content, S_RESULT_NO) /\ ~Contains(content, S_DEFECT_LINE)

\* utils.py 71: "RESULT: [NO]" in content
HasNoDefectMarker(content) == Contains(content, S_RESULT_NO)

\* ExtractDefectLine as it would be if the main line were reported for
\* multiple defects
ExtractDefectLine_main_line(content) ==
    LET is_multiple == Contains(content, S_MULTIPLE_YES)
    IN  IF is_multiple
        THEN SearchBracketed(content, S_MAIN_DEFECT_LINE, Digits)
        ELSE SearchBracketed(content, S_DEFECT_LINE, Digits)

\* utils.py 75-95: defect_line, a str or None (main_line is computed and unused)
ExtractDefectLine(content) ==
    LET is_multiple == Contains(content, S_MULTIPLE_YES)
    IN  IF is_multiple
        THEN SearchBracketed(content, S_ALL_DEFECT_LINES, DigitsOrHyphen)
        ELSE SearchBracketed(content, S_DEFECT_LINE, Digits)

\* ExtractCategory as it would be with the pattern r'DEFECT CATEGORY:\s*([A-Z_]+)',
\* which does not allow for the bracket
ExtractCategory_no_bracket(content) ==
    LET GroupAt(p) ==
            LET b == RunEnd(content, p + Len(S_DEFECT_CATEGORY), Ws)
                e == RunEnd(content, b, CatChars)
            IN  IF e > b THEN PyStr(SubSeq(content, b, e - 1)) ELSE PyNone
        hits == {p \in Occurrences(content, S_DEFECT_CATEGORY) : GroupAt(p) # PyNone}
    IN  IF hits = {} THEN PyStr(S_UNKNOWN) ELSE GroupAt(SetMin(hits))

\* utils.py 98-102, 117-118: the category, "UNKNOWN" without one
ExtractCategory(content) ==
    LET defect_category == SearchCategory(content)
    IN  IF defect_category = PyNone THEN PyStr(S_UNKNOWN) ELSE defect_category

\* utils.py 105-143: the structured description, the fallback without one
ExtractDescription(content) ==
    LET description == StructuredDescription(content)
    IN  IF description = <<>> THEN FallbackDescription(content) ELSE description

\* a returned tuple (defect_line, defect_category, defect_description)
Returned(line, cat, desc) ==
    [raised |-> FALSE, defect_line |-> line, category |-> cat, description |-> desc]

\* an exception leaving the function (TypeError)
Raised ==
    [raised |-> TRUE, defect_line |-> PyNone, category |-> PyNone,
     description |-> PyNone]

\* utils.py 66
UnknownFormat == Returned(PyNone, PyStr(S_UNKNOWN), PyStr(S_UnknownResultFormat))

\* utils.py 72
NoDefect == Returned(PyNone, PyStr(S_NONE), PyStr(S_NoDefectsFound))

\* utils.py 68-145 for content a str
ParseText(content) ==
    IF HasNoDefectMarker(content) THEN NoDefect
    ELSE Returned(ExtractDefectLine(content), ExtractCategory(content),
                  PyStr(ExtractDescription(content)))

\* utils.py 68-145: `in` on a content that is no str tests elements or keys, or
\* raises; re.search on it raises
ParseContent(content) ==
    IF content.t = "str" THEN ParseText(content.v)
    ELSE IF ~SupportsIn(content) THEN Raised
    ELSE IF PyIn(S_RESULT_NO, content) THEN NoDefect
    ELSE Raised

\* utils.py 65: result and 'message' in result and 'content' in result['message'];
\* "raise" when the evaluation raises TypeError
HasMessageContent(result) ==
    IF ~Truthy(result) THEN "no"
    ELSE IF ~PyIn(S_message, result) THEN "no"
    ELSE IF result.t # "dict" THEN "raise"
    ELSE IF ~SupportsIn(result.v[S_message]) THEN "raise"
    ELSE IF PyIn(S_content, result.v[S_message]) THEN "yes" ELSE "no"

\* utils.py 54-145
parse_llm_result(result) ==
    IF ~SupportsIn(result) THEN Raised
    ELSE IF PyIn(S_error, result)
    THEN IF result.t = "dict"
         THEN Returned(PyNone, PyStr(S_ERROR), result.v[S_error])
         ELSE Raised
    ELSE LET shape == HasMessageContent(result)
         IN  IF shape = "raise" THEN Raised
             ELSE IF shape = "no" THEN UnknownFormat
             ELSE IF result.v[S_message].t # "dict" THEN Raised
             ELSE ParseContent(result.v[S_message].v[S_content])

(***************************************************************************)
(* Literals of lintLLM1.py, of write_to_csv and of Config; messages the     *)
(* environment's exceptions carry.                                         *)
(***************************************************************************)
S_FileNotFound == <<"F", "i", "l", "e", " ", "n", "o", "t", " ", "f", "o", "u", "n", "d",
    ":", " ">>
S_FileOpFailed == <<"F", "i", "l", "e", " ", "o", "p", "e", "r", "a", "t", "i", "o", "n",
    " ", "f", "a", "i", "l", "e", "d", ":", " ">>
S_StatusFailed == <<"R", "e", "q", "u", "e", "s", "t", " ", "f", "a", "i", "l", "e", "d",
    " ", "w", "i", "t", "h", " ", "s", "t", "a", "t", "u", "s", " ", "c", "o", "d", "e",
    ":", " ">>
S_NetworkFailed == <<"N", "e", "t", "w", "o", "r", "k", " ", "r", "e", "q", "u", "e",
    "s", "t", " ", "f", "a", "i", "l", "e", "d", ":", " ">>
S_Unexpected == <<"U", "n", "e", "x", "p", "e", "c", "t", "e", "d", " ", "e", "r", "r",
    "o", "r", ":", " ">>
S_Level == <<"L", "e", "v", "e", "l">>
S_File_Name == <<"F", "i", "l", "e", "_", "N", "a", "m", "e">>
S_Defect_Line == <<"D", "e", "f", "e", "c", "t", "_", "L", "i", "n", "e">>
S_Defect_Type == <<"D", "e", "f", "e", "c", "t", "_", "T", "y", "p", "e">>
S_Defect_Description == <<"D", "e", "f", "e", "c", "t", "_", "D", "e", "s", "c", "r",
    "i", "p", "t", "i", "o", "n">>
S_DotV == <<".", "v">>
S_simple_ == <<"s", "i", "m", "p", "l", "e", "_">>
S_medium_ == <<"m", "e", "d", "i", "u", "m", "_">>
S_complex_ == <<"c", "o", "m", "p", "l", "e", "x", "_">>
S_simple == <<"s", "i", "m", "p", "l", "e">>
S_medium == <<"m", "e", "d", "i", "u", "m">>
S_complex == <<"c", "o", "m", "p", "l", "e", "x">>
BASE_BENCHMARK_PATH == <<"S", "t", "a", "t", "i", "c", "-", "V", "e", "r", "i", "l", "o",
    "g", "-", "A", "n", "a", "l", "y", "s", "i", "s", "/", "B", "e", "n", "c", "h", "m",
    "a", "r", "k">>
S_DEFECT_FOUND == <<"D", "E", "F", "E", "C", "T", " ", "F", "O", "U", "N", "D">>
S_NO_DEFECTS == <<"N", "O", " ", "D", "E", "F", "E", "C", "T", "S">>
S_PermissionDenied == <<"P", "e", "r", "m", "i", "s", "s", "i", "o", "n", " ", "d", "e",
    "n", "i", "e", "d">>
S_ConnectionRefused == <<"C", "o", "n", "n", "e", "c", "t", "i", "o", "n", " ", "r", "e",
    "f", "u", "s", "e", "d">>
S_ExpectingValue == <<"E", "x", "p", "e", "c", "t", "i", "n", "g", " ", "v", "a", "l",
    "u", "e">>
S_role == <<"r", "o", "l", "e">>
S_assistant == <<"a", "s", "s", "i", "s", "t", "a", "n", "t">>
T_Scenario2 == <<"R", "E", "S", "U", "L", "T", ":", " ", "[", "Y", "E", "S", "]", "\n",
    "D", "E", "F", "E", "C", "T", " ", "L", "I", "N", "E", ":", " ", "[", "1", "2", "]",
    "\n", "D", "E", "F", "E", "C", "T", " ", "C", "A", "T", "E", "G", "O", "R", "Y", ":",
    " ", "[", "P", "O", "R", "T", "_", "T", "Y", "P", "E", "]", "\n", "D", "E", "S", "C",
    "R", "I", "P", "T", "I", "O", "N", ":", " ", "O", "u", "t", "p", "u", "t", " ", "p",
    "o", "r", "t", " ", "u", "n", "a", "s", "s", "i", "g", "n", "e", "d", ".">>

(***************************************************************************)
(* Config (utils.py 186-201).                                              *)
(***************************************************************************)
MODULE_START_INDEX == 1

\* exclusive; 31 in the source, lowered to bound the model
MODULE_END_INDEX == 3

PROJECT_PREFIXES == <<S_simple_, S_medium_, S_complex_>>

FOLDER_NAMES == <<S_simple, S_medium, S_complex>>

\* zip(Config.PROJECT_PREFIXES, Config.FOLDER_NAMES) stops at the shorter list
NumCategories ==
    IF Len(PROJECT_PREFIXES) < Len(FOLDER_NAMES)
    THEN Len(PROJECT_PREFIXES) ELSE Len(FOLDER_NAMES)

\* the modules of one run in processing order, as <<category, index>>
RECURSIVE ModulesFrom(_, _)
ModulesFrom(c, i) ==
    IF c > NumCategories THEN <<>>
    ELSE IF i >= MODULE_END_INDEX THEN ModulesFrom(c + 1, MODULE_START_INDEX)
    ELSE <<<<c, i>>>> \o ModulesFrom(c, i + 1)

Modules == ModulesFrom(1, MODULE_START_INDEX)

(***************************************************************************)
(* Names and paths.                                                        *)
(***************************************************************************)
\* lintLLM1.py 240: f"{module_prefix}{k}"
ModuleName(c, i) == PROJECT_PREFIXES[c] \o IntToStr(i)

\* lintLLM1.py 241: f"{module_name}.v"
FileName(c, i) == ModuleName(c, i) \o S_DotV

\* lintLLM1.py 236: module_prefix.rstrip('_')
Level(c) == RStripUnderscore(PROJECT_PREFIXES[c])

\* lintLLM1.py 285: f"{Config.BASE_BENCHMARK_PATH}/{folder}"
BasePath(c) == BASE_BENCHMARK_PATH \o <<"/">> \o FOLDER_NAMES[c]

\* utils.py 181-183: os.path.join(base_path, f"{module_name}.v")
build_verilog_path(base_path, module_name) ==
    LET file == module_name \o S_DotV
    IN  IF base_path = <<>> \/ base_path[Len(base_path)] = "/"
        THEN base_path \o file
        ELSE base_path \o <<"/">> \o file

(***************************************************************************)
(* The environment of one module: the file system and the inference        *)
(* endpoint.  file: "missing", "unreadable" (open or readlines raises) or  *)
(* "ok"; http: "RequestException" or "Exception" (requests.post or         *)
(* response.json() raises one of that class) or "response"; msg: str(e) of *)
(* the exception raised; status and body: the response.                    *)
(***************************************************************************)
Outcome(file, http, msg, status, body) ==
    [file |-> file, http |-> http, msg |-> msg, status |-> status, body |-> body]

\* the decoded body {"message": {"role": "assistant", "content": text}}
ChatBody(text) ==
    PyDict([key \in {S_message} |->
        PyDict([f \in {S_role, S_content} |->
            IF f = S_role THEN PyStr(S_assistant) ELSE PyStr(text)])])

\* the file is read and the model answers that there is no defect
Nominal == Outcome("ok", "response", <<>>, 200, ChatBody(S_RESULT_NO))

FileMissing == Outcome("missing", "none", <<>>, 0, PyNone)

FileUnreadable == Outcome("unreadable", "none", S_PermissionDenied, 0, PyNone)

ConnectionRefused == Outcome("ok", "RequestException", S_ConnectionRefused, 0, PyNone)

\* an exception outside requests' hierarchy whose str() is empty
OtherException == Outcome("ok", "Exception", <<>>, 0, PyNone)

ServerError == Outcome("ok", "response", <<>>, 500, PyNone)

\* status 200 and a body that is no JSON: response.json() raises
BodyNotJson == Outcome("ok", "RequestException", S_ExpectingValue, 200, PyNone)

\* status 200 and the JSON body null
BodyNull == Outcome("ok", "response", <<>>, 200, PyNone)

\* status 200 and the JSON body {"message": null}
BodyMessageNull == Outcome("ok", "response", <<>>, 200,
                           PyDict([key \in {S_message} |-> PyNone]))

\* status 200 and the JSON body {}
BodyEmptyObject == Outcome("ok", "response", <<>>, 200, PyDict(<<>>))

DefectFound == Outcome("ok", "response", <<>>, 200, ChatBody(T_Scenario2))

Deviations ==
    {FileMissing, FileUnreadable, ConnectionRefused, OtherException, ServerError,
     BodyNotJson, BodyNull, BodyMessageNull, BodyEmptyObject, DefectFound}

\* how many modules of one run may deviate from Nominal
MaxDeviations == 2

(***************************************************************************)
(* lintLLM1.py: the inference client and the analysis of one module.       *)
(***************************************************************************)
ErrorValue(message) == PyDict([key \in {S_error} |-> PyStr(message)])

\* send_llm_request as it would be if the error value carried str(e) alone
send_llm_request_bare_message(o) ==
    IF o.http = "RequestException" THEN ErrorValue(o.msg)
    ELSE IF o.http = "Exception" THEN ErrorValue(o.msg)
    ELSE IF o.status = 200 THEN o.body
    ELSE ErrorValue(S_StatusFailed \o IntToStr(o.status))

\* lintLLM1.py 35-54
send_llm_request(o) ==
    IF o.http = "RequestException" THEN ErrorValue(S_NetworkFailed \o o.msg)
    ELSE IF o.http = "Exception" THEN ErrorValue(S_Unexpected \o o.msg)
    ELSE IF o.status = 200 THEN o.body
    ELSE ErrorValue(S_StatusFailed \o IntToStr(o.status))

\* utils.py 39-41
validate_file_path(o) == o.file # "missing"

\* lintLLM1.py 190-218
analyze_verilog_module(module_name, base_path, o) ==
    LET verilog_path == build_verilog_path(base_path, module_name)
    IN  IF ~validate_file_path(o) THEN ErrorValue(S_FileNotFound \o verilog_path)
        ELSE IF o.file = "unreadable" THEN ErrorValue(S_FileOpFailed \o o.msg)
        ELSE send_llm_request(o)

\* whether analyze_verilog_module reaches requests.post
SendsRequest(o) == validate_file_path(o) /\ o.file # "unreadable"

(***************************************************************************)
(* results.csv (utils.py 148-178).                                         *)
(***************************************************************************)
NoReport == [exists |-> FALSE, rows |-> <<>>]

\* utils.py 164-165
fieldnames ==
    <<S_Level, S_File_Name, S_Defect_Line, S_Defect_Type, S_Defect_Description>>

\* what csv.DictWriter writes for a value: None as "", a number as str(n)
CsvField(x) ==
    CASE x.t = "None" -> <<>>
      [] x.t = "int" -> IntToStr(x.v)
      [] x.t = "str" -> x.v

\* CsvRow as it would be without the 'N/A' of utils.py 175
CsvRow_without_na(level, file_name, defect_line, defect_type, defect_description) ==
    <<level, file_name, CsvField(defect_line), CsvField(defect_type),
      CsvField(defect_description)>>

\* utils.py 172-178
CsvRow(level, file_name, defect_line, defect_type, defect_description) ==
    <<level, file_name,
      IF Truthy(defect_line) THEN CsvField(defect_line) ELSE S_NA,
      CsvField(defect_type), CsvField(defect_description)>>

\* write_to_csv as it would be if the header were written on every call
write_to_csv_header_always(csvfile, level, file_name, defect_line, defect_type, defect_description) ==
    [exists |-> TRUE,
     rows |-> csvfile.rows \o <<fieldnames>>
                \o <<CsvRow(level, file_name, defect_line, defect_type,
                            defect_description)>>]

\* write_to_csv as it would be if utils.py 163 opened the file with mode 'w'
write_to_csv_truncating(csvfile, level, file_name, defect_line, defect_type, defect_description) ==
    LET file_exists == csvfile.exists
        header == IF ~file_exists THEN <<fieldnames>> ELSE <<>>
    IN  [exists |-> TRUE,
         rows |-> header
                    \o <<CsvRow(level, file_name, defect_line, defect_type,
                                defect_description)>>]

\* utils.py 161-178: the file after the call
write_to_csv(csvfile, level, file_name, defect_line, defect_type, defect_description) ==
    LET file_exists == csvfile.exists
        header == IF ~file_exists THEN <<fieldnames>> ELSE <<>>
    IN  [exists |-> TRUE,
         rows |-> csvfile.rows \o header
                    \o <<CsvRow(level, file_name, defect_line, defect_type,
                                defect_description)>>]

\* lintLLM1.py 261
StatusOf(defect_line, defect_type) ==
    IF Truthy(defect_line) THEN S_DEFECT_FOUND
    ELSE IF defect_type = PyStr(S_NONE) THEN S_NO_DEFECTS
    ELSE S_ERROR

(***************************************************************************)
(* The run: main() and process_module_batch (lintLLM1.py 221-298).         *)
(***************************************************************************)
VARIABLES
    pc,          \* where the run is: "INIT", "ANALYZE", "RECORD", "STATUS",
                 \* "DONE", "ABORTED" (an exception left main)
    report,      \* results.csv: [exists, rows]
    cat,         \* position in zip(PROJECT_PREFIXES, FOLDER_NAMES), from 1
    k,           \* the loop variable of process_module_batch
    outcome,     \* what the environment did for the module being analysed
    result,      \* lintLLM1.py 249
    parsed,      \* lintLLM1.py 256
    status,      \* lintLLM1.py 261, the status last printed
    requests,    \* the modules of this run a request was sent for, in order
    removed,     \* lintLLM1.py 279-281: this run found and removed a report
    deviations   \* modules of this run whose outcome was not Nominal

vars ==
    <<pc, report, cat, k, outcome, result, parsed, status, requests, removed,
      deviations>>

\* a report an earlier, interrupted run left behind
StaleReport ==
    [exists |-> TRUE,
     rows |-> <<fieldnames,
                <<Level(1), FileName(1, MODULE_START_INDEX), S_NA, S_NONE,
                  S_NoDefectsFound>>>>]

\* the state of a process that has not started main
Fresh ==
    /\ cat = 1
    /\ k = MODULE_START_INDEX
    /\ outcome = Nominal
    /\ result = PyNone
    /\ parsed = UnknownFormat
    /\ status = <<>>
    /\ requests = <<>>
    /\ removed = FALSE
    /\ deviations = 0

Init ==
    /\ pc = "INIT"
    /\ report \in {NoReport, StaleReport}
    /\ Fresh

\* NextModule as it would be if a module were taken up again after its row
NextModule_repeat(c, i) == <<c, i>>

\* where the loops stand after the module <<c, i>>: the next module, or
\* <<NumCategories + 1, MODULE_START_INDEX>> after the last
NextModule(c, i) ==
    IF i + 1 < MODULE_END_INDEX THEN <<c, i + 1>> ELSE <<c + 1, MODULE_START_INDEX>>

\* RemoveReport as it would be if main left an existing report in place
RemoveReport_keep(csvfile) == csvfile

\* lintLLM1.py 279-281
RemoveReport(csvfile) == IF csvfile.exists THEN NoReport ELSE csvfile

\* lintLLM1.py 274-284: main() up to the first module
MainInit ==
    /\ pc = "INIT"
    /\ removed' = report.exists
    /\ report' = RemoveReport(report)
    /\ cat' = 1
    /\ k' = MODULE_START_INDEX
    /\ pc' = IF Modules = <<>> THEN "DONE" ELSE "ANALYZE"
    /\ UNCHANGED <<outcome, result, parsed, status, requests, deviations>>

\* lintLLM1.py 240-253: analyze_verilog_module for the module <<cat, k>>
Analyze ==
    /\ pc = "ANALYZE"
    /\ \E o \in {Nominal} \cup Deviations :
          /\ o # Nominal => deviations < MaxDeviations
          /\ outcome' = o
          /\ deviations' = IF o = Nominal THEN deviations ELSE deviations + 1
          /\ result' = analyze_verilog_module(ModuleName(cat, k), BasePath(cat), o)
          /\ requests' = IF SendsRequest(o) THEN Append(requests, <<cat, k>>)
                         ELSE requests
    /\ pc' = "RECORD"
    /\ UNCHANGED <<report, cat, k, parsed, status, removed>>

\* lintLLM1.py 256-258: parse_llm_result, then write_to_csv; an exception of
\* parse_llm_result is caught nowhere and ends the process
Record ==
    /\ pc = "RECORD"
    /\ parsed' = parse_llm_result(result)
    /\ IF parsed'.raised
       THEN /\ pc' = "ABORTED"
            /\ UNCHANGED report
       ELSE /\ pc' = "STATUS"
            /\ report' = write_to_csv(report, Level(cat), FileName(cat, k),
                                      parsed'.defect_line, parsed'.category,
                                      parsed'.description)
    /\ UNCHANGED <<cat, k, outcome, result, status, requests, removed, deviations>>

\* lintLLM1.py 261-262, then the next iteration of the loops (239, 284)
Status ==
    /\ pc = "STATUS"
    /\ status' = StatusOf(parsed.defect_line, parsed.category)
    /\ cat' = NextModule(cat, k)[1]
    /\ k' = NextModule(cat, k)[2]
    /\ pc' = IF NextModule(cat, k)[1] > NumCategories THEN "DONE" ELSE "ANALYZE"
    /\ UNCHANGED <<report, outcome, result, parsed, requests, removed, deviations>>

\* the batch is started again: a new process, the report file as it was left
Rerun ==
    /\ pc \in {"DONE", "ABORTED"}
    /\ pc' = "INIT"
    /\ cat' = 1
    /\ k' = MODULE_START_INDEX
    /\ outcome' = Nominal
    /\ result' = PyNone
    /\ parsed' = UnknownFormat
    /\ status' = <<>>
    /\ requests' = <<>>
    /\ removed' = FALSE
    /\ deviations' = 0
    /\ UNCHANGED report

Next == MainInit \/ Analyze \/ Record \/ Status \/ Rerun

Spec == Init /\ [][Next]_vars

(***************************************************************************)
(* parse_llm_result as a function of its argument: the decoded bodies it   *)
(* is applied to, and the step that applies it.                            *)
(***************************************************************************)
L_AllLines123 == <<"A", "L", "L", " ", "D", "E", "F", "E", "C", "T", " ", "L", "I", "N",
    "E", "S", ":", " ", "[", "1", "-", "2", "-", "3", "]">>
L_AllLines45 == <<"A", "L", "L", " ", "D", "E", "F", "E", "C", "T", " ", "L", "I", "N",
    "E", "S", ":", " ", "[", "4", "-", "5", "]">>
L_MainLine2 == <<"M", "A", "I", "N", " ", "D", "E", "F", "E", "C", "T", " ", "L", "I",
    "N", "E", ":", " ", "[", "2", "]">>
L_DefectLine12 == <<"D", "E", "F", "E", "C", "T", " ", "L", "I", "N", "E", ":", " ", "[",
    "1", "2", "]">>
L_DefectLine7 == <<"D", "E", "F", "E", "C", "T", " ", "L", "I", "N", "E", ":", " ", "[",
    "7", "]">>
L_CategoryPortType == <<"D", "E", "F", "E", "C", "T", " ", "C", "A", "T", "E", "G", "O",
    "R", "Y", ":", " ", "[", "P", "O", "R", "T", "_", "T", "Y", "P", "E", "]">>
L_CategoryRaceHazard == <<"D", "E", "F", "E", "C", "T", " ", "C", "A", "T", "E", "G",
    "O", "R", "Y", ":", " ", "R", "A", "C", "E", "_", "H", "A", "Z", "A", "R", "D">>
L_CategoryMixedCase == <<"D", "E", "F", "E", "C", "T", " ", "C", "A", "T", "E", "G", "O",
    "R", "Y", ":", " ", "[", "P", "o", "r", "t", "_", "T", "y", "p", "e", "]">>
L_Description == <<"D", "E", "S", "C", "R", "I", "P", "T", "I", "O", "N", ":", " ", "O",
    "u", "t", "p", "u", "t", " ", "p", "o", "r", "t", " ", "u", "n", "a", "s", "s", "i",
    "g", "n", "e", "d", ".">>
L_Prose == <<"T", "h", "e", " ", "m", "o", "d", "u", "l", "e", " ", "l", "o", "o", "k",
    "s", " ", "f", "i", "n", "e">>
S_abc == <<"a", "b", "c">>
S_text == <<"t", "e", "x", "t">>

\* "\n".join(lines)
RECURSIVE JoinLines(_)
JoinLines(lines) ==
    IF lines = <<>> THEN <<>>
    ELSE IF Len(lines) = 1 THEN lines[1]
    ELSE lines[1] \o <<"\n">> \o JoinLines(Tail(lines))

\* the lines a response text is made of
ResponseLines ==
    {S_RESULT_NO, S_RESULT_YES, S_MULTIPLE_YES, L_AllLines123, L_AllLines45,
     L_MainLine2, L_DefectLine12, L_DefectLine7, L_CategoryPortType,
     L_CategoryRaceHazard, L_CategoryMixedCase, L_Description, L_Prose}

\* the most lines of a response text
MaxLines == 3

ResponseTexts ==
    UNION {{JoinLines(ls) : ls \in [1..n -> ResponseLines]} : n \in 0..MaxLines}

\* "a" * n
Fill(n) == [i \in 1..n |-> "a"]

\* the longest description text
MaxDescLen == 103

\* the lengths of the description texts: short ones and those around the limit
DescLens == {0, 1, 2} \cup ((DescriptionLimit - 4)..MaxDescLen)

\* what follows the DESCRIPTION marker: no full stop, or one after n characters
DescTexts ==
    {Fill(n) : n \in DescLens \ {0}}
        \cup {Fill(n) \o <<".">> \o Fill(m) : n \in DescLens, m \in {0, 2}}

\* the response text with the description d
DescResponse(pre, d) == pre \o S_DESCRIPTION \o <<" ">> \o d

DescPreambles == {<<>>, JoinLines(<<S_RESULT_YES, L_DefectLine12, <<>>>>)}

DescResponses == {DescResponse(pre, d) : pre \in DescPreambles, d \in DescTexts}

\* decoded bodies of other shapes
Message(x) == PyDict([key \in {S_message} |-> x])

OddShapes ==
    {PyNone, PyInt(5), PyStr(S_abc), PyStr(S_error), PyList(<<>>),
     PyList(<<PyStr(S_message)>>), PyDict(<<>>), ErrorValue(S_text),
     PyDict([key \in {S_role} |-> PyStr(S_assistant)]),
     Message(PyNone), Message(PyInt(5)), Message(PyStr(S_text)),
     Message(PyStr(S_content)), Message(PyList(<<PyStr(S_content)>>)),
     Message(PyDict(<<>>)),
     Message(PyDict([key \in {S_role} |-> PyStr(S_assistant)])),
     Message(PyDict([key \in {S_content} |-> PyNone])),
     Message(PyDict([key \in {S_content} |-> PyInt(5)])),
     Message(PyDict([key \in {S_content} |-> PyList(<<>>)])),
     Message(PyDict([key \in {S_content} |-> PyList(<<PyStr(S_RESULT_NO)>>)]))}

ParseInputs ==
    OddShapes \cup {ChatBody(text) : text \in ResponseTexts \cup DescResponses}

ParseInit ==
    /\ pc = "PARSE"
    /\ result \in ParseInputs
    /\ report = NoReport
    /\ cat = 1
    /\ k = MODULE_START_INDEX
    /\ outcome = Nominal
    /\ parsed = UnknownFormat
    /\ status = <<>>
    /\ requests = <<>>
    /\ removed = FALSE
    /\ deviations = 0

\* lintLLM1.py 256
ParseApply ==
    /\ pc = "PARSE"
    /\ parsed' = parse_llm_result(result)
    /\ pc' = "PARSED"
    /\ UNCHANGED <<report, cat, k, outcome, result, status, requests, removed,
                   deviations>>

ParseNext == ParseApply

ParseSpec == ParseInit /\ [][ParseNext]_vars

(***************************************************************************)
(* Properties.                                                             *)
(***************************************************************************)
S_PORT_TYPE == <<"P", "O", "R", "T", "_", "T", "Y", "P", "E">>
S_RACE_HAZARD == <<"R", "A", "C", "E", "_", "H", "A", "Z", "A", "R", "D">>
S_Port_Type == <<"P", "o", "r", "t", "_", "T", "y", "p", "e">>
S_medium_2_v == <<"m", "e", "d", "i", "u", "m", "_", "2", ".", "v">>
S_MissingMedium2 == <<"F", "i", "l", "e", " ", "n", "o", "t", " ", "f", "o", "u", "n",
    "d", ":", " ", "S", "t", "a", "t", "i", "c", "-", "V", "e", "r", "i", "l", "o", "g",
    "-", "A", "n", "a", "l", "y", "s", "i", "s", "/", "B", "e", "n", "c", "h", "m", "a",
    "r", "k", "/", "m", "e", "d", "i", "u", "m", "/", "m", "e", "d", "i", "u", "m", "_",
    "2", ".", "v">>

\* the modules of each category
PerCategory ==
    IF MODULE_END_INDEX > MODULE_START_INDEX
    THEN MODULE_END_INDEX - MODULE_START_INDEX ELSE 0

\* the category and the index of the n-th module of a run, n from 1
NthCategory(n) == ((n - 1) \div PerCategory) + 1

NthIndex(n) == MODULE_START_INDEX + ((n - 1) % PerCategory)

\* the report holds the header and then one row for each of the first n modules
\* of a run, in processing order
HeaderAndRows(n) ==
    /\ report.exists
    /\ Len(report.rows) = n + 1
    /\ report.rows[1] = fieldnames
    /\ \A i \in 1..n :
          /\ report.rows[i + 1] # fieldnames
          /\ Len(report.rows[i + 1]) = Len(fieldnames)
          /\ report.rows[i + 1][1] = Level(NthCategory(i))
          /\ report.rows[i + 1][2] =
                 PROJECT_PREFIXES[NthCategory(i)] \o IntToStr(NthIndex(i)) \o S_DotV

\* C1: when main() has run to completion the report holds one header row and
\* then exactly one row for each module, categories in configured order and
\* indices ascending within a category, whatever the modules' outcomes.
C1_OneRowPerModule ==
    pc = "DONE" => HeaderAndRows(NumCategories * PerCategory)

\* a completed run in which one module was reported defective and another
\* ended in an error
C1_Witness ==
    /\ pc = "DONE"
    /\ \E i, j \in 2..Len(report.rows) :
          /\ i < j
          /\ report.rows[i][4] = S_ERROR
          /\ report.rows[j][4] = S_PORT_TYPE

\* C2: no failure of a module aborts the run: the run never ends on an
\* exception, each analysed module gets its row, and a run that has ended has
\* a row for every configured module.
C2_FailureNeverAborts ==
    /\ pc # "ABORTED"
    /\ pc = "DONE" => HeaderAndRows(NumCategories * PerCategory)

\* the request of the module being processed ended in an exception
TransportError == outcome.file = "ok" /\ outcome.http \in {"RequestException", "Exception"}

\* C3: an exception of the HTTP call does not leave analyze_verilog_module: the
\* module's result is an error value, which parse_llm_result turns into
\* defect_line None, category "ERROR" and a description that is not empty.
C3_TransportErrorRecorded ==
    TransportError =>
        /\ pc # "ABORTED"
        /\ pc \in {"RECORD", "STATUS"} =>
              /\ result.t = "dict"
              /\ DOMAIN result.v = {S_error}
        /\ pc = "STATUS" =>
              /\ ~parsed.raised
              /\ parsed.defect_line = PyNone
              /\ parsed.category = PyStr(S_ERROR)
              /\ parsed.description.t = "str"
              /\ Len(parsed.description.v) > 0
              /\ report.rows[Len(report.rows)][4] = S_ERROR

\* the record of a request that failed with an exception whose message is empty
C3_Witness ==
    /\ pc = "STATUS"
    /\ outcome = OtherException
    /\ parsed.category = PyStr(S_ERROR)

\* C4: for a module whose source file does not exist no request is sent, and
\* the row appended is (level, <prefix><index>.v, "N/A", "ERROR",
\* "File not found: <path>").
C4_MissingFileRow ==
    outcome.file = "missing" =>
        /\ pc \in {"RECORD", "STATUS"} =>
              \A i \in 1..Len(requests) : requests[i] # <<cat, k>>
        /\ pc = "STATUS" =>
              report.rows[Len(report.rows)] =
                  <<RStripUnderscore(PROJECT_PREFIXES[cat]),
                    PROJECT_PREFIXES[cat] \o IntToStr(k) \o S_DotV,
                    S_NA, S_ERROR,
                    S_FileNotFound \o BASE_BENCHMARK_PATH \o <<"/">>
                        \o FOLDER_NAMES[cat] \o <<"/">> \o PROJECT_PREFIXES[cat]
                        \o IntToStr(k) \o S_DotV>>

\* the row of the missing file medium_2.v
C4_Witness ==
    /\ pc = "STATUS"
    /\ outcome = FileMissing
    /\ report.rows[Len(report.rows)] =
           <<S_medium, S_medium_2_v, S_NA, S_ERROR, S_MissingMedium2>>

\* the decoded body is an object without "error" whose "message" is an object
\* whose "content" is a str
WellFormed(x) ==
    /\ x.t = "dict"
    /\ S_error \notin DOMAIN x.v
    /\ S_message \in DOMAIN x.v
    /\ x.v[S_message].t = "dict"
    /\ S_content \in DOMAIN x.v[S_message].v
    /\ x.v[S_message].v[S_content].t = "str"

\* the response text of a well-formed body
TextOf(x) == x.v[S_message].v[S_content].v

\* C5: for a well-formed response whose text contains "RESULT: [NO]" the
\* result is (None, "NONE", "No defects found"), whatever else the text holds.
C5_NoDefectWins ==
    (pc = "PARSED" /\ WellFormed(result) /\ Contains(TextOf(result), S_RESULT_NO)) =>
        parsed = Returned(PyNone, PyStr(S_NONE), PyStr(S_NoDefectsFound))

\* a text with "RESULT: [NO]" after the markers of multiple defects and of a
\* defect line
C5_Witness ==
    /\ pc = "PARSED"
    /\ result = ChatBody(JoinLines(<<S_MULTIPLE_YES, L_DefectLine12, S_RESULT_NO>>))
    /\ parsed.category = PyStr(S_NONE)

\* the line numbers, line lists and category names the response lines carry
LineNumbers == {<<"1", "2">>, <<"7">>, <<"2">>}

LineLists == {<<"1", "-", "2", "-", "3">>, <<"4", "-", "5">>}

\* tags of the taxonomy (lintLLM1.py 138-152)
TaxonomyTags == {S_PORT_TYPE, S_RACE_HAZARD}

CategoryNames == TaxonomyTags \cup {S_Port_Type}

\* lit ": [" value "]" as the output format writes a marker
Marker(lit, value) == lit \o <<" ", "[">> \o value \o <<"]">>

\* lit occurs exactly once in the text
Once(text, lit) == Cardinality(Occurrences(text, lit)) = 1

\* the text holds a single "DEFECT LINE: [n]" and a single "DEFECT CATEGORY: [c]"
SingleDefect(text, n, c) ==
    /\ Contains(text, Marker(S_DEFECT_LINE, n))
    /\ Once(text, S_DEFECT_LINE)
    /\ Contains(text, Marker(S_DEFECT_CATEGORY, c))
    /\ Once(text, S_DEFECT_CATEGORY)

\* C6 as stated: for every response holding a single "DEFECT LINE: [n]" and
\* "DEFECT CATEGORY: [c]", c a tag of the taxonomy, the result has defect_line
\* n and category c.
C6_SingleDefectAsStated ==
    (pc = "PARSED" /\ WellFormed(result)) =>
        \A n \in LineNumbers, c \in TaxonomyTags :
            SingleDefect(TextOf(result), n, c) =>
                /\ ~parsed.raised
                /\ parsed.defect_line = PyStr(n)
                /\ parsed.category = PyStr(c)

\* C6: for every response holding a single "DEFECT LINE: [n]" and "DEFECT
\* CATEGORY: [c]", c made of capital letters and underscores, and holding
\* neither "RESULT: [NO]" nor "MULTIPLE DEFECTS: [YES]", the result has
\* defect_line n and category c.
C6_SingleDefect ==
    (pc = "PARSED" /\ WellFormed(result)) =>
        \A n \in LineNumbers, c \in CategoryNames :
            ( /\ SingleDefect(TextOf(result), n, c)
              /\ \A i \in 1..Len(c) : c[i] \in CatChars
              /\ ~Contains(TextOf(result), S_RESULT_NO)
              /\ ~Contains(TextOf(result), S_MULTIPLE_YES) ) =>
                /\ ~parsed.raised
                /\ parsed.defect_line = PyStr(n)
                /\ parsed.category = PyStr(c)

\* the single defect response of the output format
C6_Witness ==
    /\ pc = "PARSED"
    /\ result = ChatBody(JoinLines(<<S_RESULT_YES, L_DefectLine12, L_CategoryPortType>>))
    /\ parsed.defect_line = PyStr(<<"1", "2">>)
    /\ parsed.category = PyStr(S_PORT_TYPE)

\* C7 as stated: for every response holding "MULTIPLE DEFECTS: [YES]" and "ALL
\* DEFECT LINES: [a-b-c]" the result's defect_line is "a-b-c".
C7_AllLinesAsStated ==
    (pc = "PARSED" /\ WellFormed(result)) =>
        \A l \in LineLists :
            ( /\ Contains(TextOf(result), S_MULTIPLE_YES)
              /\ Contains(TextOf(result), Marker(S_ALL_DEFECT_LINES, l)) ) =>
                /\ ~parsed.raised
                /\ parsed.defect_line = PyStr(l)

\* C7: for every response without "RESULT: [NO]" holding "MULTIPLE DEFECTS:
\* [YES]" and a single ALL DEFECT LINES marker, "ALL DEFECT LINES: [a-b-c]",
\* the result's defect_line is "a-b-c", never the MAIN DEFECT LINE value.
C7_AllLines ==
    (pc = "PARSED" /\ WellFormed(result)) =>
        \A l \in LineLists :
            ( /\ Contains(TextOf(result), S_MULTIPLE_YES)
              /\ Contains(TextOf(result), Marker(S_ALL_DEFECT_LINES, l))
              /\ Once(TextOf(result), S_ALL_DEFECT_LINES)
              /\ ~Contains(TextOf(result), S_RESULT_NO) ) =>
                /\ ~parsed.raised
                /\ parsed.defect_line = PyStr(l)

\* a multiple defect response whose main line is 2
C7_Witness ==
    /\ pc = "PARSED"
    /\ result = ChatBody(JoinLines(<<S_MULTIPLE_YES, L_AllLines123, L_MainLine2>>))
    /\ parsed.defect_line = PyStr(<<"1", "-", "2", "-", "3">>)

\* d up to and with its first full stop
FirstSentence(d) == SubSeq(d, 1, SetMin({i \in 1..Len(d) : d[i] = "."}))

\* d has a full stop among its first DescriptionLimit characters
EarlyTerminator(d) ==
    \E i \in 1..Len(d) : i <= DescriptionLimit /\ d[i] = "."

\* C8: a description after the DESCRIPTION marker that is longer than 100
\* characters and has no early sentence terminator is cut to its first 97
\* characters and "...", 100 characters in all; and every description taken
\* from a DESCRIPTION marker is the first sentence or at most 100 characters.
C8_Truncation ==
    pc = "PARSED" =>
        \A pre \in DescPreambles, d \in DescTexts :
            result = ChatBody(DescResponse(pre, d)) =>
                /\ ~parsed.raised
                /\ (Len(d) > DescriptionLimit /\ ~EarlyTerminator(d)) =>
                      /\ parsed.description = PyStr(SubSeq(d, 1, DescriptionKeep) \o S_Ellipsis)
                      /\ Len(parsed.description.v) = DescriptionLimit
                /\ \/ Len(parsed.description.v) <= DescriptionLimit
                   \/ /\ Contains(d, <<".">>)
                      /\ parsed.description = PyStr(FirstSentence(d))

\* the body is an object without "error" and without a message content that
\* is a str
LacksContent(x) ==
    /\ x.t = "dict"
    /\ S_error \notin DOMAIN x.v
    /\ ~WellFormed(x)

\* C9: a result that is no error value and has no message content (no
\* message, a message without content, a message or a content of another
\* type) gives (None, "UNKNOWN", "Unknown result format") and raises nothing.
C9_UnknownFormat ==
    (pc = "PARSED" /\ LacksContent(result)) =>
        parsed = Returned(PyNone, PyStr(S_UNKNOWN), PyStr(S_UnknownResultFormat))

\* C10: a run that found a report of an earlier run and has completed leaves
\* the header, once and first, and the rows of this run alone: as many rows as
\* this run has modules, none of the earlier run.
C10_RerunStartsAfresh ==
    (pc = "DONE" /\ removed) =>
        /\ report.exists
        /\ report.rows[1] = fieldnames
        /\ Cardinality({i \in 1..Len(report.rows) : report.rows[i] = fieldnames}) = 1
        /\ Len(report.rows) - 1 = Len(Modules)
        /\ \A i \in 1..Len(Modules) :
              report.rows[i + 1][2] = FileName(Modules[i][1], Modules[i][2])

\* a completed run that began with the report of an earlier run and had a
\* module fail
C10_Witness ==
    /\ pc = "DONE"
    /\ removed
    /\ deviations > 0

\* the position of the module <<c, i>> in the processing order, from 1
ModuleNumber(c, i) == (c - 1) * PerCategory + (i - MODULE_START_INDEX) + 1

\* the modules of this run whose RECORD step has finished
Recorded ==
    IF pc = "INIT" THEN 0
    ELSE IF pc = "STATUS" THEN ModuleNumber(cat, k)
    ELSE ModuleNumber(cat, k) - 1

\* the rows of old are the first rows of new
IsPrefix(old, new) ==
    /\ Len(old) <= Len(new)
    /\ SubSeq(new, 1, Len(old)) = old

\* C11 as stated: at every point of a run after INIT the report is the header
\* followed by one complete row for each module whose RECORD step has
\* finished, in processing order.
C11_ValidPrefixAsStated ==
    pc # "INIT" => HeaderAndRows(Recorded)

\* a step of a run leaves the report as it is or, finishing RECORD, appends to
\* it: the header if there is no report, and one row
AppendOnly ==
    pc # "INIT" =>
        \/ report' = report
        \/ /\ pc = "RECORD"
           /\ report'.exists
           /\ IsPrefix(report.rows, report'.rows)
           /\ Len(report'.rows) = Len(report.rows) + (IF report.exists THEN 1 ELSE 2)

\* after INIT there is no report until the first RECORD step has finished, and
\* from then on it is the header and a row for each finished module
AbsentOrHeaderAndRows ==
    pc # "INIT" =>
        IF Recorded = 0 THEN report = NoReport ELSE HeaderAndRows(Recorded)

\* C11: at every point of a run after INIT has removed an earlier report, the
\* report is a prefix of the final report: absent while no RECORD step has
\* finished, then the header followed by one complete row for each module
\* whose RECORD step has finished, in processing order, with no row for the
\* module being analysed; rows once written are never changed or removed.
C11_ValidPrefix ==
    /\ []AbsentOrHeaderAndRows
    /\ [][AppendOnly]_vars

\* the second category is under way: a defect was found in its first module,
\* whose row is not written yet, and the report holds the first category's rows
C11_Witness ==
    /\ pc = "RECORD"
    /\ cat = 2
    /\ k = MODULE_START_INDEX
    /\ outcome = DefectFound
    /\ Len(report.rows) = PerCategory + 1
    /\ report.rows[Len(report.rows)][2] = FileName(1, MODULE_END_INDEX - 1)

\* the requests sent for the module <<c, i>> in this run
RequestsFor(c, i) == {n \in 1..Len(requests) : requests[n] = <<c, i>>}

\* the position in the processing order of the module of the n-th request
RequestNumber(n) == ModuleNumber(requests[n][1], requests[n][2])

\* C12: requests are sent in processing order, never two for one module; a
\* module has one request once it is analysed if its file exists and is
\* readable, and none otherwise; while a module waits to be analysed no
\* request was sent for it or for a later one; and when the request of a
\* module is sent the report holds the rows of all modules before it.
C12_SequentialNoRetry ==
    /\ \A n \in 1..(Len(requests) - 1) : RequestNumber(n) < RequestNumber(n + 1)
    /\ pc \in {"ANALYZE", "DONE"} =>
          \A n \in 1..Len(requests) : RequestNumber(n) < ModuleNumber(cat, k)
    /\ pc \in {"RECORD", "STATUS", "ABORTED"} =>
          /\ \A n \in 1..Len(requests) : RequestNumber(n) <= ModuleNumber(cat, k)
          /\ Cardinality(RequestsFor(cat, k)) = IF outcome.file = "ok" THEN 1 ELSE 0
    /\ (pc = "RECORD" /\ RequestsFor(cat, k) # {} /\ ModuleNumber(cat, k) > 1) =>
          HeaderAndRows(ModuleNumber(cat, k) - 1)

\* a completed run in which the request of one module failed and was recorded
\* as an error, the file of another module was missing, and every other
\* module had its request
C12_Witness ==
    /\ pc = "DONE"
    /\ \E i, j \in 1..Len(Modules) :
          /\ RequestsFor(Modules[i][1], Modules[i][2]) # {}
          /\ report.rows[i + 1][4] = S_ERROR
          /\ RequestsFor(Modules[j][1], Modules[j][2]) = {}
          /\ report.rows[j + 1][5] =
                 S_FileNotFound \o build_verilog_path(BasePath(Modules[j][1]),
                                    ModuleName(Modules[j][1], Modules[j][2]))
          /\ Len(requests) = Len(Modules) - 1
====
